---------------------------- MODULE Spec2Model ----------------------------
(***************************************************************************)
(* A model of sparse/linalg.py: the LinearOperator adapters and the        *)
(* iterative solvers spsolve, cg, cgs, bicg, bicgstab and lsqr.            *)
(*                                                                         *)
(* Numbers.  The solvers compute in floating point.  The model computes    *)
(* in exact rational arithmetic extended with the IEEE special values the  *)
(* code can produce silently (array division by zero gives inf or nan and  *)
(* raises nothing): a number is a record [n, d] with d > 0 for the         *)
(* rational n/d in lowest terms, d = 0 with n = 1 / -1 for +inf / -inf     *)
(* and n = d = 0 for nan.  Square roots are never taken: sqrt(v) < t is    *)
(* decided as v < t*t.                                                     *)
(***************************************************************************)
EXTENDS Integers, Sequences, FiniteSets, TLC

(***************************************************************************)
(* Bounds of the model.                                                    *)
(***************************************************************************)
\* right-hand sides have entries in -MaxEntry..MaxEntry
MaxEntry == 1
\* explicit maxiter / iter_lim arguments range over 0..MaxIterArg
MaxIterArg == 3
\* loops without an iteration cap are followed for at most MaxSteps iterations
MaxSteps == 27

\* Absent values: None is the error of a run that raised nothing; an optional
\* integer or vector is a sequence, empty when it is not given; an object
\* that does not exist yet is Nothing.
None == "None"

Absent == <<>>

Nothing == [kind |-> "none"]

Given(k) == <<k>>

(***************************************************************************)
(* Extended rational arithmetic.                                           *)
(***************************************************************************)
Abs(k) == IF k < 0 THEN -k ELSE k

Sign(k) == IF k < 0 THEN -1 ELSE IF k > 0 THEN 1 ELSE 0

RECURSIVE Gcd(_, _)
Gcd(a, b) == IF b = 0 THEN a ELSE Gcd(b, a % b)

NaN == [n |-> 0, d |-> 0]

Inf(s) == [n |-> s, d |-> 0]

Rat(a, b) ==
    LET g == Gcd(Abs(a), Abs(b))
    IN  IF b < 0 THEN [n |-> (-a) \div g, d |-> (-b) \div g]
                 ELSE [n |-> a \div g, d |-> b \div g]

Num(k) == [n |-> k, d |-> 1]

Zero == Num(0)

IsNaN(v) == v.d = 0 /\ v.n = 0

IsInf(v) == v.d = 0 /\ v.n # 0

IsFinite(v) == v.d > 0

\* a + b
Add(a, b) ==
    IF IsNaN(a) \/ IsNaN(b) THEN NaN
    ELSE IF IsInf(a) THEN (IF IsInf(b) /\ b.n # a.n THEN NaN ELSE a)
    ELSE IF IsInf(b) THEN b
    ELSE LET g == Gcd(a.d, b.d)
         IN  Rat(a.n * (b.d \div g) + b.n * (a.d \div g), (a.d \div g) * b.d)

\* -a
Neg(a) == [n |-> -a.n, d |-> a.d]

\* a - b
Sub(a, b) == Add(a, Neg(b))

\* a * b
Mul(a, b) ==
    IF IsNaN(a) \/ IsNaN(b) THEN NaN
    ELSE IF IsInf(a) \/ IsInf(b)
         THEN (IF a.n = 0 \/ b.n = 0 THEN NaN ELSE Inf(Sign(a.n) * Sign(b.n)))
    ELSE LET g == Gcd(Abs(a.n), b.d)
             h == Gcd(Abs(b.n), a.d)
         IN  Rat((a.n \div g) * (b.n \div h), (a.d \div h) * (b.d \div g))

\* a / b as an array division: x/0 is inf (nan for 0/0), nothing is raised
Div(a, b) ==
    IF IsNaN(a) \/ IsNaN(b) THEN NaN
    ELSE IF IsInf(a) THEN (IF IsInf(b) THEN NaN
                           ELSE Inf(Sign(a.n) * (IF b.n < 0 THEN -1 ELSE 1)))
    ELSE IF IsInf(b) THEN Zero
    ELSE IF b.n = 0 THEN (IF a.n = 0 THEN NaN ELSE Inf(Sign(a.n)))
    ELSE Mul(a, Rat(b.d, b.n))

\* a < b; every comparison with nan is false
Lt(a, b) ==
    IF IsNaN(a) \/ IsNaN(b) THEN FALSE
    ELSE IF IsInf(a) THEN a.n < 0 /\ ~(IsInf(b) /\ b.n < 0)
    ELSE IF IsInf(b) THEN b.n > 0
    ELSE LET g == Gcd(a.d, b.d)
         IN  a.n * (b.d \div g) < b.n * (a.d \div g)


\* sqrt(v) < 1/sqrt(q) for an integer q > 0, decided as v < 1/q without overflow
LtInv(v, q) ==
    /\ ~IsNaN(v)
    /\ IF IsInf(v) THEN v.n < 0
       ELSE v.n <= 0 \/ v.n <= (v.d - 1) \div q

(***************************************************************************)
(* Tolerances.  A tolerance is 0 (the default) or an integer q standing for *)
(* tol = 1/sqrt(q).  The literal tolerances of the code (1e-10 in spsolve, *)
(* 1e-8 in cg, 1e-5 in cgs, bicg and bicgstab) have squares below 1/2^31,  *)
(* the smallest positive value a number of the model can take, so that for *)
(* them norm < tol is decided exactly by: the squared norm is not positive.*)
(***************************************************************************)
NormBelow(sq, tol) ==
    IF tol = 0 THEN ~IsNaN(sq) /\ ~IsInf(sq) /\ sq.n <= 0
    ELSE LtInv(sq, tol)

(***************************************************************************)
(* Vectors (sequences of numbers) and matrices (sequences of integer rows).*)
(***************************************************************************)
VZeros(n) == [k \in 1..n |-> Zero]

VNum(v) == [k \in 1..Len(v) |-> Num(v[k])]

RECURSIVE SumTo(_, _)
SumTo(f, k) == IF k = 0 THEN Zero ELSE Add(SumTo(f, k - 1), f[k])

\* u . v
Dot(u, v) == SumTo([k \in 1..Len(u) |-> Mul(u[k], v[k])], Len(u))

\* u + s * v, elementwise
Axpy(u, s, v) == [k \in 1..Len(u) |-> Add(u[k], Mul(s, v[k]))]

\* u - v with the broadcasting of a length-1 operand
VSubB(u, v) ==
    LET len == IF Len(u) = 1 THEN Len(v) ELSE Len(u)
        at(w, k) == IF Len(w) = 1 THEN w[1] ELSE w[k]
    IN  [k \in 1..len |-> Sub(at(u, k), at(v, k))]

\* whether 1-D shapes of lengths j and k broadcast together
Broadcastable(j, k) == j = k \/ j = 1 \/ k = 1

\* rows * x
MatVec(rows, x) ==
    [i \in 1..Len(rows) |-> Dot(VNum(rows[i]), x)]

\* the conjugate transpose of a real matrix with m rows and n columns
Transpose(rows, n) ==
    [j \in 1..n |-> [i \in 1..Len(rows) |-> rows[i][j]]]

VHasNaN(v) == \E k \in 1..Len(v) : IsNaN(v[k])

VFinite(v) == \A k \in 1..Len(v) : IsFinite(v[k])

(***************************************************************************)
(* State.                                                                  *)
(*   solver  the entry point called                                        *)
(*   A, b    the caller's matrix (or operator) and right-hand side         *)
(*   args    the remaining arguments of the call                           *)
(*   mem     the current contents of the caller's own buffers x0 and b     *)
(*   pc      "call" before the call, "loop" while the solver iterates,     *)
(*           "done" after a return, "failed" after a raise                 *)
(*   err     the error raised, None while none is                          *)
(*   op      the operator object the solver applies                        *)
(*   loc     the solver's local variables                                  *)
(*   ret     the returned value                                            *)
(*   nprod   matrix products applied so far: calls of the wrapped matrix's *)
(*           dot and of a custom operator's matvec / rmatvec callables     *)
(*   iters   loop iterations started so far                                *)
(*   nrmatvec  calls made so far of the rmatvec method of A's operator     *)
(***************************************************************************)
VARIABLES solver, A, b, args, mem, pc, err, op, loc, ret, nprod, iters,
          nrmatvec

vars == <<solver, A, b, args, mem, pc, err, op, loc, ret, nprod, iters,
          nrmatvec>>

(***************************************************************************)
(* The caller's arguments.  A matrix is [kind |-> "matrix", shape, rows];  *)
(* an already-built LinearOperator is [kind |-> "operator", shape, rows,   *)
(* hasR]: a _CustomLinearOperator whose matvec callable multiplies by rows *)
(* and whose rmatvec callable, when hasR, multiplies by their transpose.   *)
(* A right-hand side is [shape, v]: v holds the entries of a 1-D array or  *)
(* of the first column of a 2-D one.                                       *)
(***************************************************************************)
Matrix(rows) ==
    [kind |-> "matrix", shape |-> <<Len(rows), Len(rows[1])>>, rows |-> rows]

\* an array of another rank than 2 given as the matrix
FlatMatrix(n) == [kind |-> "matrix", shape |-> <<n>>, rows |-> <<>>]

Operator(rows, hasR) ==
    [kind |-> "operator", shape |-> <<Len(rows), Len(rows[1])>>,
     rows |-> rows, hasR |-> hasR]

Vector(v) == [shape |-> <<Len(v)>>, v |-> v]

Column(v, c) == [shape |-> <<Len(v), c>>, v |-> v]

IntVecs(n) == [1..n -> (-MaxEntry)..MaxEntry]

Ones(n) == [k \in 1..n |-> 1]

IsSquare(X) == Len(X.shape) = 2 /\ X.shape[1] = X.shape[2]

IsSymmetric(rows) ==
    \A i \in 1..Len(rows) : \A j \in 1..Len(rows) : rows[i][j] = rows[j][i]

\* symmetric positive definite, for matrices of dimension 1 or 2
IsSPD(X) ==
    /\ X.kind = "matrix" /\ IsSquare(X) /\ X.shape[1] \in {1, 2}
    /\ IsSymmetric(X.rows)
    /\ X.rows[1][1] > 0
    /\ X.shape[1] = 2 =>
          X.rows[1][1] * X.rows[2][2] - X.rows[1][2] * X.rows[2][1] > 0

SPDRows ==
    { <<<<2>>>>,
      <<<<1, 0>>, <<0, 2>>>>,
      <<<<2, 1>>, <<1, 2>>>>,
      <<<<2, -1>>, <<-1, 2>>>> }

\* symmetric but indefinite or singular
OtherSymRows ==
    { <<<<0>>>>,
      <<<<1, 0>>, <<0, -1>>>>,
      <<<<1, 1>>, <<1, 1>>>> }

SymRows == SPDRows \cup OtherSymRows

\* square, not symmetric
GeneralRows ==
    { <<<<1, 1>>, <<0, 1>>>>,
      <<<<2, 1>>, <<0, 1>>>>,
      <<<<0, 1>>, <<-1, 0>>>> }

\* rectangular
RectRows ==
    { <<<<1, 0>>>>,
      <<<<1>>, <<1>>>> }

DefaultArgs ==
    [x0 |-> Absent, tol |-> 0, maxiter |-> Absent, M |-> Nothing,
     callback |-> FALSE, atol |-> Absent, conv_test_iters |-> 25,
     iter_lim |-> Absent]

MaxiterArgs == {Absent} \cup {Given(k) : k \in 0..MaxIterArg}

(***************************************************************************)
(* LinearOperator and its adapters.  An operator object is a record:       *)
(*   [kind |-> "sparse", shape, A, AH]    _SparseMatrixLinearOperator      *)
(*   [kind |-> "operator", shape, rows, hasR]   _CustomLinearOperator      *)
(*   [kind |-> "identity", shape]         IdentityOperator                 *)
(* A product answers [err, y, op, n, t]: the error raised (None if none),  *)
(* the result, the operator afterwards, the number of matrix products done *)
(* and the number of conjugate transposes computed.                        *)
(***************************************************************************)
SparseMatrixLinearOperator(X) ==
    [kind |-> "sparse", shape |-> X.shape, A |-> X, AH |-> Absent]

IdentityOperator(shape) == [kind |-> "identity", shape |-> shape]

IsLinearOperator(X) == X.kind \in {"operator", "sparse", "identity"}

make_linear_operator(X) ==
    IF IsLinearOperator(X) THEN X ELSE SparseMatrixLinearOperator(X)

Raise(e, o) == [err |-> e, y |-> <<>>, op |-> o, n |-> 0, t |-> 0]

Answer(y, o, n) == [err |-> None, y |-> y, op |-> o, n |-> n, t |-> 0]

\* o._matvec(x)
inner_matvec(o, x) ==
    CASE o.kind = "sparse" ->
            IF IsLinearOperator(o.A)
            THEN Raise("AttributeError", o)       \* a LinearOperator has no dot
            ELSE Answer(MatVec(o.A.rows, x), o, 1)
      [] o.kind = "operator" -> Answer(MatVec(o.rows, x), o, 1)
      [] o.kind = "identity" -> Answer(x, o, 0)

\* o.matvec(x) for a 1-D x
matvec(o, x) ==
    IF Len(o.shape) # 2 THEN Raise("ValueError", o)   \* M, N = self.shape
    ELSE IF Len(x) # o.shape[2] THEN Raise("dimension mismatch", o)
    ELSE inner_matvec(o, x)

\* an _rmatvec that keeps no cache: the transpose is computed at every call
inner_rmatvec_uncached(o, x) ==
    CASE o.kind = "sparse" ->
            IF IsLinearOperator(o.A)
            THEN Raise("AttributeError", o)
            ELSE LET AH == Transpose(o.A.rows, o.shape[2])
                 IN  [Answer(MatVec(AH, x), [o EXCEPT !.AH = AH], 1)
                         EXCEPT !.t = 1]
      [] o.kind = "operator" ->
            IF ~o.hasR THEN Raise("NotImplementedError", o)
            ELSE Answer(MatVec(Transpose(o.rows, o.shape[2]), x), o, 1)
      [] o.kind = "identity" -> Answer(x, o, 0)

\* o._rmatvec(x)
inner_rmatvec(o, x) ==
    CASE o.kind = "sparse" ->
            IF IsLinearOperator(o.A)
            THEN Raise("AttributeError", o)       \* a LinearOperator has no T
            ELSE LET AH == IF o.AH = Absent
                           THEN Transpose(o.A.rows, o.shape[2]) ELSE o.AH
                 IN  [Answer(MatVec(AH, x), [o EXCEPT !.AH = AH], 1)
                         EXCEPT !.t = IF o.AH = Absent THEN 1 ELSE 0]
      [] o.kind = "operator" ->
            IF ~o.hasR THEN Raise("NotImplementedError", o)
            ELSE Answer(MatVec(Transpose(o.rows, o.shape[2]), x), o, 1)
      [] o.kind = "identity" -> Answer(x, o, 0)

\* o.rmatvec(x) for a 1-D x
rmatvec(o, x) ==
    IF Len(o.shape) # 2 THEN Raise("ValueError", o)
    ELSE IF Len(x) # o.shape[1] THEN Raise("dimension mismatch", o)
    ELSE inner_rmatvec(o, x)

\* the state after a raise
Fail(e) ==
    /\ pc' = "failed"
    /\ err' = e

(***************************************************************************)
(* cg(A, b, x0, tol, maxiter, M, callback, atol, conv_test_iters)          *)
(***************************************************************************)
\* the first assertion: b is 1-D or a column
IsVectorOrColumn(v) ==
    Len(v.shape) = 1 \/ (Len(v.shape) = 2 /\ v.shape[2] = 1)

\* the iteration cap: maxiter, 10 * n when it is not given
CgMaxiter(m, n) == IF m = Absent THEN n * 10 ELSE m[1]

\* a convergence test made at every iteration
CgTestEvery(i, cti, maxiter, r, tol) == NormBelow(Dot(r, r), tol)

\* the loop's convergence test at iteration i
CgTest(i, cti, maxiter, r, tol) ==
    (i % cti = 0 \/ i = maxiter - 1) /\ NormBelow(Dot(r, r), tol)

\* the preconditioner object: the identity, or the matrix M wrapped
CgPreconditioner(M, o) ==
    IF M = Nothing THEN IdentityOperator(o.shape) ELSE make_linear_operator(M)

\* a loop that leaves out the callback of its first iteration
CallbackAfterFirst(cb, i) == cb /\ i > 0

\* "if callback is not None" at the head of iteration i
CallbackAtIteration(cb, i) == cb

\* callback(x): the locals l with one more invocation, made with the x of l
CalledBack(l) == [l EXCEPT !.ncallback = @ + 1, !.cbarg = l.x]

\* the locals after the head of iteration i: info = i and the callback
Entered(l, cb, i) ==
    [(IF CallbackAtIteration(cb, i) THEN CalledBack(l) ELSE l) EXCEPT !.info = i]

\* from the call to the head of the loop
CgCall ==
    /\ pc = "call" /\ solver = "cg"
    /\ UNCHANGED <<nrmatvec, solver, A, b, args, mem, ret, iters>>
    /\ IF ~IsVectorOrColumn(b) \/ ~IsSquare(A)
       THEN Fail("assert shape") /\ UNCHANGED <<op, loc, nprod>>
       ELSE IF args.atol # Absent
       THEN Fail("assert atol is None") /\ UNCHANGED <<op, loc, nprod>>
       ELSE LET n == b.shape[1]
                o == make_linear_operator(A)
                p == VZeros(n)
                Ap == matvec(o, p)
            IN  /\ op' = Ap.op
                /\ nprod' = nprod + Ap.n
                /\ IF Ap.err # None
                   THEN Fail(Ap.err) /\ UNCHANGED loc
                   ELSE /\ pc' = "loop"
                        /\ err' = None
                        /\ loc' = [n |-> n,
                                   maxiter |-> CgMaxiter(args.maxiter, n),
                                   M |-> CgPreconditioner(args.M, o),
                                   x |-> IF args.x0 = Absent THEN VZeros(n)
                                         ELSE mem.x0,
                                   p |-> p,
                                   Ap |-> Ap.y,
                                   \* b - Ap: a column b minus a 1-D Ap
                                   \* broadcasts to an n x n array
                                   rdim |-> Len(b.shape),
                                   r |-> VSubB(VNum(b.v), Ap.y),
                                   z |-> Absent,
                                   rz |-> NaN,
                                   i |-> 0,
                                   info |-> 0,
                                   brk |-> FALSE,
                                   ncallback |-> 0,
                                   cbarg |-> Absent]

\* one iteration of the loop, for a 1-D residual
CgBody ==
    LET i == loc.i
        z == matvec(loc.M, loc.r)
        rz == Dot(loc.r, z.y)
        p == IF i = 0 THEN z.y
             ELSE LET beta == Div(rz, loc.rz)
                  IN  [k \in 1..loc.n |-> Add(Mul(loc.p[k], beta), z.y[k])]
        Ap == matvec(op, p)
        pAp == Dot(p, Ap.y)
        alpha == Div(rz, pAp)
        x == Axpy(loc.x, alpha, p)
        r == Axpy(loc.r, Neg(alpha), Ap.y)
        stop == CgTest(i, args.conv_test_iters, loc.maxiter, r, args.tol)
        entered == Entered(loc, args.callback, i)
    IN  IF z.err # None
        THEN Fail(z.err) /\ loc' = entered /\ UNCHANGED <<op, nprod>>
        ELSE
        /\ op' = Ap.op
        /\ nprod' = nprod + Ap.n
        /\ IF Ap.err # None
           THEN Fail(Ap.err) /\ loc' = entered
           ELSE /\ UNCHANGED <<pc, err>>
                /\ loc' = [entered EXCEPT
                             !.z = z.y, !.rz = rz, !.p = p, !.Ap = Ap.y,
                             !.x = x, !.r = r,
                             !.brk = stop,
                             !.i = IF stop THEN i ELSE i + 1]

CgIter ==
    /\ pc = "loop" /\ solver = "cg"
    /\ ~loc.brk /\ loc.i < loc.maxiter
    /\ UNCHANGED <<nrmatvec, solver, A, b, args, mem, ret>>
    /\ iters' = iters + 1
    /\ IF loc.rdim = 2 /\ loc.n # 1
       THEN \* M.matvec(r): r has shape (n, n), neither (N,) nor (N, 1)
            /\ Fail("dimension mismatch")
            /\ loc' = Entered(loc, args.callback, loc.i)
            /\ UNCHANGED <<op, nprod>>
       ELSE CgBody

\* a residual of shape (1, 1): the fused update of the 2-D r with the 1-D Ap
\* is a task of the runtime, which may refuse the two shapes
CgColumnRefused ==
    /\ pc = "loop" /\ solver = "cg"
    /\ ~loc.brk /\ loc.i < loc.maxiter
    /\ loc.rdim = 2 /\ loc.n = 1
    /\ Fail("ValueError")
    /\ iters' = iters + 1
    /\ loc' = Entered(loc, args.callback, loc.i)
    /\ UNCHANGED <<nrmatvec, solver, A, b, args, mem, ret, op, nprod>>

\* after the loop: the last callback and the return of (x, info)
CgReturn ==
    /\ pc = "loop" /\ solver = "cg"
    /\ loc.brk \/ loc.i >= loc.maxiter
    /\ pc' = "done"
    /\ loc' = IF args.callback THEN CalledBack(loc) ELSE loc
    /\ ret' = [x |-> loc.x, info |-> loc.info]
    /\ UNCHANGED <<nrmatvec, solver, A, b, args, mem, err, op, nprod, iters>>

NextCg == CgCall \/ CgIter \/ CgColumnRefused \/ CgReturn

Start(s, X, v, a) ==
    /\ solver = s
    /\ A = X
    /\ b = v
    /\ args = a
    /\ mem = [x0 |-> VNum(a.x0), b |-> VNum(v.v)]
    /\ pc = "call"
    /\ err = None
    /\ op = Nothing
    /\ loc = Nothing
    /\ ret = Nothing
    /\ nprod = 0
    /\ iters = 0
    /\ nrmatvec = 0

\* the numeric calls of cg: symmetric matrices, right-hand sides of A's size
CgGrid ==
    \E rows \in SymRows : \E v \in IntVecs(Len(rows)) :
    \E m \in MaxiterArgs : \E cti \in {1, 25} : \E t \in {0, 4} :
    \E x0 \in {Absent, Ones(Len(rows))} :
        Start("cg", Matrix(rows), Vector(v),
              [DefaultArgs EXCEPT !.maxiter = m, !.conv_test_iters = cti,
                                  !.tol = t, !.x0 = x0])

\* the matrices and right-hand sides of every shape
AllA ==
    {Matrix(rows) : rows \in {<<<<2>>>>, <<<<1, 0>>, <<0, 2>>>>} \cup RectRows}
    \cup {FlatMatrix(2)}
    \cup {Operator(<<<<1, 0>>, <<0, 2>>>>, h) : h \in BOOLEAN}

AllB ==
    {Vector(v) : v \in {<<1>>, <<1, 1>>, <<1, 0, 1>>}}
    \cup {Column(v, c) : v \in {<<1>>, <<1, 1>>}, c \in {1, 2}}

\* the other arguments, one of them set at a time
ArgVariants ==
    { DefaultArgs,
      [DefaultArgs EXCEPT !.maxiter = Given(1)],
      [DefaultArgs EXCEPT !.callback = TRUE],
      [DefaultArgs EXCEPT !.atol = Given(1)],
      [DefaultArgs EXCEPT !.M = Matrix(<<<<2, 0>>, <<0, 2>>>>)] }

CgShapes ==
    \E X \in AllA : \E v \in AllB : \E a \in ArgVariants :
        Start("cg", X, v, a)

InitCg == CgGrid \/ CgShapes

SpecCg == InitCg /\ [][NextCg]_vars

(***************************************************************************)
(* spsolve(A, b)                                                           *)
(***************************************************************************)
conv_iters == 25

\* A.dot(x) on the caller's matrix itself, for a 1-D x
dot(X, x) ==
    IF X.kind # "matrix" THEN Raise("AttributeError", X)
    ELSE IF Len(x) # X.shape[2] THEN Raise("ValueError", X)
    ELSE Answer(MatVec(X.rows, x), X, 1)

\* the convergence test of iteration i: conv_threshold is the default tolerance
SpTest(i, max_iters, rsnew) ==
    (i % conv_iters = 0 \/ i = max_iters - 1) /\ NormBelow(rsnew, 0)

\* from the call to the head of the loop
SpCall ==
    /\ pc = "call" /\ solver = "spsolve"
    /\ UNCHANGED <<nrmatvec, solver, A, b, args, mem, ret, iters, op>>
    /\ IF ~IsVectorOrColumn(b) \/ ~IsSquare(A)
       THEN Fail("assert shape") /\ UNCHANGED <<loc, nprod>>
       ELSE LET x == VZeros(A.shape[2])
                Ax == dot(A, x)
            IN  /\ nprod' = nprod + Ax.n
                /\ IF Ax.err # None
                   THEN Fail(Ax.err) /\ UNCHANGED loc
                   ELSE IF Len(b.shape) = 1 /\ ~Broadcastable(b.shape[1], Len(Ax.y))
                   THEN Fail("ValueError") /\ UNCHANGED loc    \* b - A.dot(x)
                   ELSE LET r == VSubB(VNum(b.v), Ax.y)
                        IN  /\ pc' = "loop"
                            /\ err' = None
                            /\ loc' = [x |-> x,
                                       \* a column b minus the 1-D product
                                       \* broadcasts to a 2-D array
                                       rdim |-> Len(b.shape),
                                       r |-> r,
                                       p |-> r,
                                       rsold |-> Dot(r, r),
                                       converged |-> -1,
                                       max_iters |-> b.shape[1],
                                       i |-> 0,
                                       ended |-> FALSE]

\* one iteration of the loop, for 1-D vectors
SpBody ==
    LET i == loc.i
        Ap == dot(A, loc.p)
        alpha == Div(loc.rsold, Dot(loc.p, Ap.y))
        x == Axpy(loc.x, alpha, loc.p)
        r == Axpy(loc.r, Neg(alpha), Ap.y)
        rsnew == Dot(r, r)
        stop == SpTest(i, loc.max_iters, rsnew)
        beta == Div(rsnew, loc.rsold)
    IN  /\ nprod' = nprod + Ap.n
        /\ IF Ap.err # None
           THEN Fail(Ap.err) /\ UNCHANGED loc
           ELSE /\ UNCHANGED <<pc, err>>
                /\ loc' = IF stop
                          THEN [loc EXCEPT !.x = x, !.r = r,
                                           !.converged = i, !.ended = TRUE]
                          ELSE [loc EXCEPT !.x = x, !.r = r,
                                           !.p = Axpy(r, beta, loc.p),
                                           !.rsold = rsnew,
                                           !.i = i + 1]

SpIter ==
    /\ pc = "loop" /\ solver = "spsolve"
    /\ ~loc.ended /\ loc.i < loc.max_iters
    /\ UNCHANGED <<nrmatvec, solver, A, b, args, mem, ret, op>>
    /\ iters' = iters + 1
    /\ IF loc.rdim = 2 /\ (b.shape[1] # 1 \/ A.shape[2] # 1)
       THEN \* r is a 2-D array with several entries: the matrix refuses the
            \* product, or the test takes the truth value of an array
            Fail("ValueError") /\ UNCHANGED <<loc, nprod>>
       ELSE SpBody

\* after the loop: the solution, or the convergence failure
SpReturn ==
    /\ pc = "loop" /\ solver = "spsolve"
    /\ loc.ended \/ loc.i >= loc.max_iters
    /\ IF loc.converged < 0
       THEN Fail("Convergence Failure") /\ UNCHANGED ret
       ELSE pc' = "done" /\ ret' = [x |-> loc.x] /\ UNCHANGED err
    /\ UNCHANGED <<nrmatvec, solver, A, b, args, mem, op, loc, nprod, iters>>

NextSp == SpCall \/ SpIter \/ SpReturn

\* diagonal matrices of dimension 3: iteration 1 of 3 is not a tested one
DiagRows3 ==
    { <<<<1, 0, 0>>, <<0, 1, 0>>, <<0, 0, 2>>>>,
      <<<<1, 0, 0>>, <<0, 2, 0>>, <<0, 0, 3>>>> }

SpGrid ==
    \E rows \in SymRows \cup GeneralRows \cup DiagRows3 :
    \E v \in IntVecs(Len(rows)) :
        Start("spsolve", Matrix(rows), Vector(v), DefaultArgs)

SpShapes ==
    \E X \in AllA : \E v \in AllB : Start("spsolve", X, v, DefaultArgs)

InitSp == SpGrid \/ SpShapes

SpecSp == InitSp /\ [][NextSp]_vars

(***************************************************************************)
(* lsqr(A, b, damp, atol, btol, conlim, iter_lim, show, calc_var, x0)      *)
(*                                                                         *)
(* The start-up is computed exactly: a norm is positive exactly when its   *)
(* vector is not zero.  Inside the loop the norms, the rotations and the   *)
(* estimates anorm, acond, rnorm, arnorm are floating-point quantities the *)
(* model does not compute: every iteration takes any outcome of its six    *)
(* numeric stopping tests and of beta > 0, and the iterate is kept as its  *)
(* starting vector with the number of updates x = x + t1 * w applied;      *)
(* loc.held is the set of the codes whose tests held in the last iteration *)
(* and loc.fired the lowest of those among 1..6.                           *)
(***************************************************************************)
VNonZero(v) == \E k \in 1..Len(v) : v[k] # Zero

\* the iteration limit: iter_lim, 2 * n when it is not given
LsqrIterLim(l, n) == IF l = Absent THEN 2 * n ELSE l[1]

\* a loop that runs once more, while itn <= iter_lim
LsqrContinueInclusive(itn, iter_lim) == itn <= iter_lim

\* the main loop's condition
LsqrContinue(itn, iter_lim) == itn < iter_lim

\* the tests 1..6 that hold in an iteration, as the lowest of their codes:
\* 0 when none holds
Fired(t) ==
    IF \E k \in 1..6 : t[k]
    THEN CHOOSE k \in 1..6 : t[k] /\ \A j \in 1..(k - 1) : ~t[j]
    ELSE 0

\* the codes whose stopping tests hold in an iteration: k for the test of
\* code k, 7 for itn >= iter_lim
Held(itn, iter_lim, t) ==
    {k \in 1..6 : t[k]} \cup (IF itn >= iter_lim THEN {7} ELSE {})

\* stopping tests assigned in ascending order of their codes, so that the
\* highest code that holds is the one kept
LsqrTestsAscending(itn, iter_lim, t) ==
    LET s1 == IF t[1] THEN 1 ELSE 0
        s2 == IF t[2] THEN 2 ELSE s1
        s3 == IF t[3] THEN 3 ELSE s2
        s4 == IF t[4] THEN 4 ELSE s3
        s5 == IF t[5] THEN 5 ELSE s4
        s6 == IF t[6] THEN 6 ELSE s5
    IN  IF itn >= iter_lim THEN 7 ELSE s6

\* stopping tests in which the iteration limit is assigned last and wins
LsqrTestsLimitLast(itn, iter_lim, t) ==
    IF itn >= iter_lim THEN 7 ELSE Fired(t)

\* istop after the stopping tests of one iteration, assigned in the code's
\* order: the iteration limit, the machine-precision tests 6, 5, 4, the
\* user-tolerance tests 3, 2, 1; t[k] is the outcome of the test of code k
LsqrTests(itn, iter_lim, t) ==
    LET s7 == IF itn >= iter_lim THEN 7 ELSE 0
        s6 == IF t[6] THEN 6 ELSE s7
        s5 == IF t[5] THEN 5 ELSE s6
        s4 == IF t[4] THEN 4 ELSE s5
        s3 == IF t[3] THEN 3 ELSE s4
        s2 == IF t[2] THEN 2 ELSE s3
    IN  IF t[1] THEN 1 ELSE s2

LsqrReturning(l) ==
    /\ pc' = "done"
    /\ err' = None
    /\ ret' = [x |-> l.x, istop |-> l.istop, itn |-> l.itn]

\* from the call to the head of the loop, or to the return of the trivial
\* solution
LsqrCall ==
    /\ pc = "call" /\ solver = "lsqr"
    /\ UNCHANGED <<solver, A, b, args, mem, iters>>
    /\ IF Len(A.shape) # 2 \/ Len(b.shape) # 1 \/ A.shape[1] # b.shape[1]
       THEN Fail("Invalid shapes") /\ UNCHANGED <<op, loc, ret, nprod, nrmatvec>>
       ELSE LET o == SparseMatrixLinearOperator(A)
                n == A.shape[2]
                x == IF args.x0 = Absent THEN VZeros(n) ELSE mem.x0
                Ax == IF args.x0 = Absent THEN Answer(VZeros(A.shape[1]), o, 0)
                      ELSE matvec(o, x)
                u == VSubB(VNum(b.v), Ax.y)
                betaPos == VNonZero(u)
                v == IF betaPos THEN rmatvec(Ax.op, u) ELSE Answer(x, Ax.op, 0)
                alfaPos == betaPos /\ VNonZero(v.y)
                l == [x |-> [start |-> x, updates |-> 0],
                      iter_lim |-> LsqrIterLim(args.iter_lim, n),
                      itn |-> 0, istop |-> 0,
                      fired |-> 0, held |-> {},
                      betaPos |-> betaPos, alfaPos |-> alfaPos]
            IN  IF Ax.err # None
                THEN /\ Fail(Ax.err)
                     /\ op' = Ax.op /\ nprod' = nprod + Ax.n
                     /\ UNCHANGED <<loc, ret, nrmatvec>>
                ELSE /\ op' = v.op
                     /\ nprod' = nprod + Ax.n + v.n
                     /\ nrmatvec' = nrmatvec + (IF betaPos THEN 1 ELSE 0)
                     /\ IF v.err # None
                        THEN Fail(v.err) /\ UNCHANGED <<loc, ret>>
                        ELSE /\ loc' = l
                             /\ IF ~(alfaPos /\ betaPos)      \* arnorm == 0
                                THEN LsqrReturning(l)
                                ELSE pc' = "loop" /\ err' = None /\ UNCHANGED ret

\* one iteration of the main loop
LsqrIter ==
    /\ pc = "loop" /\ solver = "lsqr"
    /\ loc.istop = 0 /\ LsqrContinue(loc.itn, loc.iter_lim)
    /\ \E betaPos \in BOOLEAN : \E t \in [1..6 -> BOOLEAN] :
         LET itn == loc.itn + 1
         IN  \* A.matvec(v), and A.rmatvec(u) when beta > 0: the operator is
             \* the wrapped matrix, whose transpose the start-up has cached
             /\ nprod' = nprod + 1 + (IF betaPos THEN 1 ELSE 0)
             /\ nrmatvec' = nrmatvec + (IF betaPos THEN 1 ELSE 0)
             /\ loc' = [loc EXCEPT !.itn = itn,
                                   !.betaPos = betaPos,
                                   !.fired = Fired(t),
                                   !.held = Held(itn, loc.iter_lim, t),
                                   !.x.updates = @ + 1,
                                   !.istop = LsqrTests(itn, loc.iter_lim, t)]
    /\ iters' = iters + 1
    /\ UNCHANGED <<solver, A, b, args, mem, pc, err, op, ret>>

\* the end of the loop and the return
LsqrReturn ==
    /\ pc = "loop" /\ solver = "lsqr"
    /\ loc.istop # 0 \/ ~LsqrContinue(loc.itn, loc.iter_lim)
    /\ LsqrReturning(loc)
    /\ UNCHANGED <<nrmatvec, solver, A, b, args, mem, op, loc, nprod, iters>>

NextLsqr == LsqrCall \/ LsqrIter \/ LsqrReturn

LsqrRows ==
    { <<<<1, 0>>, <<1, 1>>, <<0, 1>>>>,
      <<<<1, 1>>, <<0, 1>>>>,
      <<<<1, 1>>, <<1, 1>>>>,
      <<<<1, 0>>>> }

\* right-hand sides: zero, all ones, and first entry 1, last entry -1
Rhs(m) ==
    { [k \in 1..m |-> 0], [k \in 1..m |-> 1],
      [k \in 1..m |-> IF k = 1 THEN 1 ELSE IF k = m THEN -1 ELSE 0] }

LsqrGrid ==
    \E rows \in LsqrRows : \E v \in Rhs(Len(rows)) :
    \E l \in MaxiterArgs : \E x0 \in {Absent, Ones(Len(rows[1]))} :
        Start("lsqr", Matrix(rows), Vector(v),
              [DefaultArgs EXCEPT !.iter_lim = l, !.x0 = x0])

LsqrShapes ==
    \E X \in AllA : \E v \in AllB :
    \E x0 \in {Absent} \cup (IF Len(X.shape) = 2 THEN {Ones(X.shape[2])} ELSE {}) :
        Start("lsqr", X, v, [DefaultArgs EXCEPT !.x0 = x0])

InitLsqr == LsqrGrid \/ LsqrShapes

SpecLsqr == InitLsqr /\ [][NextLsqr]_vars

\* the loop, once entered, runs on: the program is sequential, and its next
\* iteration or its return is taken when it can be
SpecLsqrLive == SpecLsqr /\ WF_vars(LsqrIter) /\ WF_vars(LsqrReturn)

(***************************************************************************)
(* cgs, bicg and bicgstab share their arguments and the start of their     *)
(* bodies.  Their loops are "while True": the model follows a run for at   *)
(* most MaxSteps iterations.                                               *)
(***************************************************************************)
\* the assertion that opens cgs and bicg
SquareSystem(X, v) ==
    IsSquare(X) /\ Len(v.shape) = 1 /\ v.shape[1] = X.shape[1]

\* a solver that lets a callback through
AcceptsCallback(cb) == FALSE

\* "if callback is not None: raise NotImplementedError"
RejectsCallback(cb) == cb

\* a test made at every iteration
KrylovTestAlways(i, sq, tol) == NormBelow(sq, tol)

\* the periodic test of the loops: only at the iterations i % conv_iters == 0
KrylovTest(i, sq, tol) == i % conv_iters = 0 /\ NormBelow(sq, tol)

\* a loop capped by maxiter: "while k < maxiter"
KrylovCapped(m, k) == m = Absent \/ k < m[1]

\* the loops' condition, "while True": maxiter (m) and the iterations done so
\* far (k) are not looked at
KrylovContinue(m, k) == TRUE

\* "return x"
Returning(x) ==
    /\ pc' = "done"
    /\ err' = None
    /\ ret' = [x |-> x]

\* the loop's condition fails: control falls to the "return x" after the loop
LoopEnds ==
    /\ Returning(loc.x)
    /\ UNCHANGED <<op, nprod, mem, loc, iters>>

\* x += d, in place: with an x0 given, x is the caller's array itself
InPlace(x) == IF args.x0 = Absent THEN mem ELSE [mem EXCEPT !.x0 = x]

\* u + s * v and u - s * v
Plus(u, s, v) == Axpy(u, s, v)

Minus(u, s, v) == Axpy(u, Neg(s), v)

(***************************************************************************)
(* cgs(A, b, x0, tol, maxiter, M, callback, atol)                          *)
(***************************************************************************)
CgsCall ==
    /\ pc = "call" /\ solver = "cgs"
    /\ UNCHANGED <<nrmatvec, solver, A, b, args, mem, iters>>
    /\ IF ~SquareSystem(A, b)
       THEN Fail("assert shape") /\ UNCHANGED <<op, loc, ret, nprod>>
       ELSE IF args.M # Nothing
       THEN Fail("assert M is None") /\ UNCHANGED <<op, loc, ret, nprod>>
       ELSE LET o == SparseMatrixLinearOperator(A)
                x == IF args.x0 = Absent THEN VZeros(A.shape[2]) ELSE mem.x0
                Ax == matvec(o, x)
                r == VSubB(VNum(b.v), Ax.y)
            IN  IF RejectsCallback(args.callback)
                THEN /\ Fail("NotImplementedError")
                     /\ op' = o /\ UNCHANGED <<loc, ret, nprod>>
                ELSE /\ op' = Ax.op
                     /\ nprod' = nprod + Ax.n
                     /\ IF Ax.err # None
                        THEN Fail(Ax.err) /\ UNCHANGED <<loc, ret>>
                        ELSE /\ loc' = [x |-> x, r |-> r, rhat |-> r, p |-> r,
                                        u |-> r, i |-> 0]
                             /\ IF NormBelow(Dot(r, r), args.tol)
                                THEN Returning(x)
                                ELSE pc' = "loop" /\ err' = None /\ UNCHANGED ret

\* the body of the loop; the counter i is never advanced
CgsBody ==
    LET Ap == matvec(op, loc.p)
        alpha == Div(Dot(loc.r, loc.rhat), Dot(Ap.y, loc.rhat))
        q == Minus(loc.u, alpha, Ap.y)
        uq == [k \in 1..Len(q) |-> Add(loc.u[k], q[k])]
        x == Plus(loc.x, alpha, uq)
        Auq == matvec(Ap.op, uq)
        r == Minus(loc.r, alpha, Auq.y)
        beta == Div(Dot(r, loc.rhat), Dot(loc.r, loc.rhat))
        u == Plus(r, beta, q)
        p == Plus(u, beta, Plus(q, beta, loc.p))
    IN  /\ op' = Auq.op
        /\ nprod' = nprod + Ap.n + Auq.n
        /\ mem' = InPlace(x)
        /\ IF KrylovTest(loc.i, Dot(r, r), args.tol)
           THEN /\ loc' = [loc EXCEPT !.x = x, !.r = r]
                /\ Returning(x)
           ELSE /\ loc' = [loc EXCEPT !.x = x, !.r = r, !.u = u, !.p = p]
                /\ UNCHANGED <<pc, err, ret>>

CgsIter ==
    /\ pc = "loop" /\ solver = "cgs" /\ iters < MaxSteps
    /\ UNCHANGED <<nrmatvec, solver, A, b, args>>
    /\ IF ~KrylovContinue(args.maxiter, iters) THEN LoopEnds
       ELSE iters' = iters + 1 /\ CgsBody

NextCgs == CgsCall \/ CgsIter

(***************************************************************************)
(* bicg(A, b, x0, tol, maxiter, M, callback, atol)                         *)
(***************************************************************************)
BicgCall ==
    /\ pc = "call" /\ solver = "bicg"
    /\ UNCHANGED <<solver, A, b, args, mem, iters>>
    /\ IF ~SquareSystem(A, b)
       THEN Fail("assert shape") /\ UNCHANGED <<op, loc, ret, nprod, nrmatvec>>
       ELSE IF args.M # Nothing
       THEN /\ Fail("assert M is None")
            /\ UNCHANGED <<op, loc, ret, nprod, nrmatvec>>
       ELSE LET o == SparseMatrixLinearOperator(A)
                x == IF args.x0 = Absent THEN VZeros(A.shape[2]) ELSE mem.x0
                Ax == matvec(o, x)
                r == VSubB(VNum(b.v), Ax.y)
                small == NormBelow(Dot(r, r), args.tol)
                adjoint == Ax.err = None /\ ~small
                Axs == IF adjoint THEN rmatvec(Ax.op, VZeros(A.shape[1]))
                       ELSE Answer(<<>>, Ax.op, 0)
                rstar == VSubB(VNum(b.v), Axs.y)
            IN  IF RejectsCallback(args.callback)
                THEN /\ Fail("NotImplementedError")
                     /\ op' = o /\ UNCHANGED <<loc, ret, nprod, nrmatvec>>
                ELSE /\ op' = Axs.op
                     /\ nprod' = nprod + Ax.n + Axs.n
                     /\ nrmatvec' = nrmatvec + (IF adjoint THEN 1 ELSE 0)
                     /\ IF Ax.err # None
                        THEN Fail(Ax.err) /\ UNCHANGED <<loc, ret>>
                        ELSE IF small
                        THEN Returning(x) /\ loc' = [x |-> x, r |-> r, i |-> 0]
                        ELSE /\ pc' = "loop" /\ err' = None /\ UNCHANGED ret
                             /\ loc' = [x |-> x, r |-> r, rstar |-> rstar,
                                        p |-> r, pstar |-> rstar, i |-> 0]

\* the body of the loop
BicgBody ==
    LET Ap == matvec(op, loc.p)
        alpha == Div(Dot(loc.rstar, loc.r), Dot(loc.pstar, Ap.y))
        x == Plus(loc.x, alpha, loc.p)
        r == Minus(loc.r, alpha, Ap.y)
        AHp == rmatvec(Ap.op, loc.pstar)
        rstar == Minus(loc.rstar, alpha, AHp.y)
        beta == Div(Dot(rstar, r), Dot(loc.rstar, loc.r))
    IN  /\ op' = AHp.op
        /\ nprod' = nprod + Ap.n + AHp.n
        /\ nrmatvec' = nrmatvec + 1
        /\ mem' = InPlace(x)
        /\ IF KrylovTest(loc.i, Dot(r, r), args.tol)
           THEN /\ loc' = [loc EXCEPT !.x = x, !.r = r, !.rstar = rstar]
                /\ Returning(x)
           ELSE /\ loc' = [loc EXCEPT !.x = x, !.r = r, !.rstar = rstar,
                                      !.p = Plus(r, beta, loc.p),
                                      !.pstar = Plus(rstar, beta, loc.pstar),
                                      !.i = loc.i + 1]
                /\ UNCHANGED <<pc, err, ret>>

BicgIter ==
    /\ pc = "loop" /\ solver = "bicg" /\ iters < MaxSteps
    /\ UNCHANGED <<solver, A, b, args>>
    /\ IF ~KrylovContinue(args.maxiter, iters)
       THEN LoopEnds /\ UNCHANGED nrmatvec
       ELSE iters' = iters + 1 /\ BicgBody

NextBicg == BicgCall \/ BicgIter

(***************************************************************************)
(* bicgstab(A, b, x0, tol, maxiter, M, callback, atol)                     *)
(* The shape assertion of cgs and bicg is commented out here, so that the  *)
(* shapes are whatever the caller gave.                                    *)
(***************************************************************************)
\* 1 / 1e-8, the restart threshold on |r . rhat|
restart_inv == 100000000

AbsNum(v) == IF v.n < 0 THEN Neg(v) ELSE v

\* a restart decided on the sign-carrying product: r @ rhat < 1e-8
BelowThreshold(r, rhat) == LtInv(Dot(r, rhat), restart_inv)

\* np.linalg.norm(r @ rhat) < 1e-8
NearOrthogonal(r, rhat) == LtInv(AbsNum(Dot(r, rhat)), restart_inv)

\* b - y for a 1-D y of length m: the shape of the result, <<>> if the two do
\* not broadcast
DiffShape(v, m) ==
    IF Len(v.shape) = 1
    THEN IF Broadcastable(v.shape[1], m)
         THEN <<IF v.shape[1] = 1 THEN m ELSE v.shape[1]>> ELSE <<>>
    ELSE IF Broadcastable(v.shape[2], m)
         THEN <<v.shape[1], IF v.shape[2] = 1 THEN m ELSE v.shape[2]>>
         ELSE <<>>

BicgstabCall ==
    /\ pc = "call" /\ solver = "bicgstab"
    /\ UNCHANGED <<nrmatvec, solver, A, b, args, mem, iters>>
    /\ IF args.M # Nothing
       THEN Fail("assert M is None") /\ UNCHANGED <<op, loc, ret, nprod>>
       ELSE LET o == SparseMatrixLinearOperator(A)
                x == IF args.x0 = Absent THEN VZeros(A.shape[2]) ELSE mem.x0
                Ax == matvec(o, x)
                rshape == DiffShape(b, Len(Ax.y))
                r == VSubB(VNum(b.v), Ax.y)
            IN  IF RejectsCallback(args.callback)
                THEN /\ Fail("NotImplementedError")
                     /\ op' = o /\ UNCHANGED <<loc, ret, nprod>>
                ELSE IF args.x0 = Absent /\ Len(A.shape) < 2
                THEN /\ Fail("IndexError")             \* A.shape[1]
                     /\ op' = o /\ UNCHANGED <<loc, ret, nprod>>
                ELSE /\ op' = Ax.op
                     /\ nprod' = nprod + Ax.n
                     /\ IF Ax.err # None
                        THEN Fail(Ax.err) /\ UNCHANGED <<loc, ret>>
                        ELSE IF \/ rshape = <<>>        \* b - A.matvec(x)
                                \* r @ r of a 2-D r, and its truth value
                                \/ Len(rshape) = 2 /\ rshape # <<1, 1>>
                        THEN Fail("ValueError") /\ UNCHANGED <<loc, ret>>
                        ELSE /\ loc' = [x |-> x, r |-> r, rhat |-> r, p |-> r,
                                        s |-> Absent,
                                        rdim |-> Len(rshape), i |-> 0,
                                        exit |-> "none"]
                             /\ IF NormBelow(Dot(r, r), args.tol)
                                THEN Returning(x)
                                ELSE pc' = "loop" /\ err' = None /\ UNCHANGED ret

\* an early exit that breaks without updating x
NoStep(x, alpha, p) == x

\* the update of the early exit: x += alpha * p
HalfStep(x, alpha, p) == Plus(x, alpha, p)

\* the body of the loop
BicgstabBody ==
    LET Ap == matvec(op, loc.p)
        sized == Ap.err = None /\ Len(Ap.y) = Len(loc.rhat)
        alpha == Div(Dot(loc.r, loc.rhat), Dot(Ap.y, loc.rhat))
        s == Minus(loc.r, alpha, Ap.y)
        early == KrylovTest(loc.i, Dot(s, s), args.tol)
        As == IF sized /\ ~early THEN matvec(Ap.op, s)
              ELSE Answer(<<>>, Ap.op, 0)
        omega == Div(Dot(As.y, s), Dot(As.y, As.y))
        x == Plus(Plus(loc.x, alpha, loc.p), omega, s)
        r == Minus(s, omega, As.y)
        beta == Div(Mul(Div(alpha, omega), Dot(r, loc.rhat)),
                    Dot(loc.r, loc.rhat))
        p == Plus(r, beta, Minus(loc.p, omega, Ap.y))
        restart == NearOrthogonal(r, loc.rhat)
    IN  /\ op' = As.op
        /\ nprod' = nprod + Ap.n + As.n
        /\ IF Ap.err # None
           THEN Fail(Ap.err) /\ UNCHANGED <<loc, ret, mem>>
           ELSE IF ~sized                       \* Ap @ rhat
           THEN Fail("ValueError") /\ UNCHANGED <<loc, ret, mem>>
           ELSE IF loc.rdim = 2                 \* x += a (1, 1) array
           THEN Fail("ValueError") /\ UNCHANGED <<loc, ret, mem>>
           ELSE IF early
           THEN LET xh == HalfStep(loc.x, alpha, loc.p)
                IN  /\ loc' = [loc EXCEPT !.x = xh, !.s = s, !.exit = "s"]
                    /\ mem' = InPlace(xh)
                    /\ Returning(xh)
           ELSE /\ mem' = InPlace(x)
                /\ IF KrylovTest(loc.i, Dot(r, r), args.tol)
                   THEN /\ loc' = [loc EXCEPT !.x = x, !.s = s, !.r = r,
                                               !.exit = "r"]
                        /\ Returning(x)
                   ELSE /\ loc' = [loc EXCEPT
                                     !.x = x, !.s = s, !.r = r,
                                     !.p = IF restart THEN r ELSE p,
                                     !.rhat = IF restart THEN r ELSE @,
                                     !.i = loc.i + 1]
                        /\ UNCHANGED <<pc, err, ret>>

BicgstabIter ==
    /\ pc = "loop" /\ solver = "bicgstab" /\ iters < MaxSteps
    /\ UNCHANGED <<nrmatvec, solver, A, b, args>>
    /\ IF ~KrylovContinue(args.maxiter, iters) THEN LoopEnds
       ELSE iters' = iters + 1 /\ BicgstabBody

NextBicgstab == BicgstabCall \/ BicgstabIter

(***************************************************************************)
(* The calls of cgs, bicg and bicgstab.                                    *)
(***************************************************************************)
KrylovSolvers == {"cgs", "bicg", "bicgstab"}

KrylovArgs(n) ==
    { DefaultArgs,
      [DefaultArgs EXCEPT !.maxiter = Given(1)],
      [DefaultArgs EXCEPT !.tol = 4],
      [DefaultArgs EXCEPT !.x0 = Ones(n)] }

KrylovGrid ==
    \E sv \in KrylovSolvers :
    \E rows \in SPDRows \cup GeneralRows : \E v \in Rhs(Len(rows)) :
    \E a \in KrylovArgs(Len(rows)) :
        Start(sv, Matrix(rows), Vector(v), a)

KrylovShapes ==
    \E sv \in KrylovSolvers :
    \E X \in AllA : \E v \in AllB : \E a \in ArgVariants :
        Start(sv, X, v, a)

\* systems of dimension 3 on which bicgstab's first iteration leaves a
\* residual that is not zero and is orthogonal to rhat
RestartRows ==
    { <<<<1, 0, -1>>, <<1, 1, -1>>, <<1, -1, 1>>>>,
      <<<<1, 1, 1>>, <<1, 1, -1>>, <<-1, 0, 1>>>> }

RestartGrid ==
    \E rows \in RestartRows :
        Start("bicgstab", Matrix(rows), Vector(<<1, 0, -1>>), DefaultArgs)

InitKrylov == KrylovGrid \/ KrylovShapes \/ RestartGrid

NextKrylov == NextCgs \/ NextBicg \/ NextBicgstab

SpecKrylov == InitKrylov /\ [][NextKrylov]_vars

(***************************************************************************)
(* All the solvers.                                                        *)
(***************************************************************************)
Init == InitSp \/ InitCg \/ InitKrylov \/ InitLsqr

Next == NextSp \/ NextCg \/ NextKrylov \/ NextLsqr

Spec == Init /\ [][Next]_vars
(***************************************************************************)
(* The operators on their own: one operator instance and a caller that     *)
(* applies matvec and rmatvec to arrays of any shape, with or without an   *)
(* output buffer, and may afterwards write into the array it got back.     *)
(* An array is a reference [buf, shape] to a buffer of loc.heap: buffer 1  *)
(* holds the input x, buffer 2 the output buffer when one is given, and    *)
(* buffer 3 is the one a product or a copy allocates.                      *)
(*   solver  "operator"                                                    *)
(*   op      the operator instance                                         *)
(*   loc     the caller's arrays and its probes: the calls that passed the *)
(*           shape check, the transposes computed, the state before the    *)
(*           last call                                                     *)
(*   ret     the array the last call returned, Nothing if it raised        *)
(*   err     the error of the last call                                    *)
(*   iters   the calls made so far                                         *)
(***************************************************************************)
\* the caller makes at most MaxCalls calls on the instance
MaxCalls == 3

Ref(buf, shape) == [kind |-> "array", buf |-> buf, shape |-> shape]

\* the number of entries of an array of at most two dimensions
Size(shape) ==
    IF Len(shape) = 0 THEN 1
    ELSE IF Len(shape) = 1 THEN shape[1] ELSE shape[1] * shape[2]

\* a shape check that looks at the leading dimension only
AcceptsLength(shape, k) == Len(shape) >= 1 /\ shape[1] = k

\* the shape check of matvec and rmatvec: (k,) or (k, 1)
AcceptsShape(shape, k) == shape = <<k>> \/ shape = <<k, 1>>

\* y.reshape((m,)) for a 1-D input, y.reshape(m, 1) for a 2-D one
ResultShape(shape, m) == IF Len(shape) = 1 THEN <<m>> ELSE <<m, 1>>

\* o.matvec(x) for an array x of the given shape and entries v
matvec_array(o, shape, v) ==
    IF ~AcceptsShape(shape, o.shape[2]) THEN Raise("dimension mismatch", o)
    ELSE inner_matvec(o, v)

\* o.rmatvec(x) for an array x of the given shape and entries v
rmatvec_array(o, shape, v) ==
    IF ~AcceptsShape(shape, o.shape[1]) THEN Raise("dimension mismatch", o)
    ELSE inner_rmatvec(o, v)

\* an _matvec that hands the input itself back when there is no out
AliasedBuffer(x, out, fresh) == IF out # Nothing THEN out.buf ELSE x.buf

\* where _matvec and _rmatvec leave their result: in out when it is given,
\* and otherwise in a new array (x.copy() for the identity)
ResultBuffer(x, out, fresh) == IF out # Nothing THEN out.buf ELSE fresh

OpInstances ==
    {SparseMatrixLinearOperator(Matrix(rows)) :
        rows \in {<<<<1, 1>>, <<0, 1>>>>} \cup RectRows}
    \cup {Operator(<<<<1, 0>>, <<0, 2>>>>, h) : h \in BOOLEAN}
    \cup {IdentityOperator(<<n, n>>) : n \in {1, 2}}

InputShapes ==
    {<<>>, <<1>>, <<2>>, <<3>>, <<1, 1>>, <<2, 1>>, <<1, 2>>, <<2, 2>>}

InputValues(shape) ==
    {Ones(Size(shape)), [k \in 1..Size(shape) |-> k + 1]}

InitOp ==
    \E o \in OpInstances :
        /\ solver = "operator"
        /\ A = (IF o.kind = "sparse" THEN o.A ELSE o)
        /\ b = Vector(<<>>)
        /\ args = DefaultArgs
        /\ mem = [x0 |-> <<>>, b |-> <<>>]
        /\ pc = "ops"
        /\ err = None
        /\ op = o
        /\ loc = [heap |-> [k \in 1..3 |-> <<>>],
                  x |-> Nothing, xval |-> <<>>, out |-> Nothing,
                  last |-> "none",
                  before |-> [op |-> o, nprod |-> 0, ntranspose |-> 0],
                  ntranspose |-> 0, rpassed |-> 0, written |-> FALSE]
        /\ ret = Nothing
        /\ nprod = 0
        /\ iters = 0
        /\ nrmatvec = 0

\* one call of op.matvec or op.rmatvec by the caller
OpCall(method) ==
    /\ pc = "ops" /\ solver = "operator" /\ iters < MaxCalls
    /\ \E shape \in InputShapes : \E v \in InputValues(shape) :
       \E withOut \in BOOLEAN :
         LET x == Ref(1, shape)
             out == IF withOut THEN Ref(2, shape) ELSE Nothing
             heap == [k \in 1..3 |->
                        IF k = 1 THEN VNum(v)
                        ELSE IF k = 2 /\ withOut THEN VZeros(Len(v))
                        ELSE <<>>]
             res == IF method = "matvec" THEN matvec_array(op, shape, VNum(v))
                    ELSE rmatvec_array(op, shape, VNum(v))
             m == IF method = "matvec" THEN op.shape[1] ELSE op.shape[2]
             buf == ResultBuffer(x, out, 3)
         IN  /\ op' = res.op
             /\ nprod' = nprod + res.n
             /\ err' = res.err
             /\ ret' = IF res.err # None THEN Nothing
                       ELSE Ref(buf, ResultShape(shape, m))
             /\ loc' = [heap |-> IF res.err # None THEN heap
                                 ELSE [heap EXCEPT ![buf] = res.y],
                        x |-> x, xval |-> VNum(v), out |-> out,
                        last |-> method,
                        before |-> [op |-> op, nprod |-> nprod,
                                    ntranspose |-> loc.ntranspose],
                        ntranspose |-> loc.ntranspose + res.t,
                        rpassed |-> loc.rpassed +
                            (IF method = "rmatvec"
                                /\ res.err # "dimension mismatch"
                             THEN 1 ELSE 0),
                        written |-> FALSE]
    /\ iters' = iters + 1
    /\ nrmatvec' = nrmatvec + (IF method = "rmatvec" THEN 1 ELSE 0)
    /\ UNCHANGED <<solver, A, b, args, mem, pc>>

OpMatvec == OpCall("matvec")

OpRmatvec == OpCall("rmatvec")

\* the caller overwrites the array the last call returned: y[:] = 0
OpWrite ==
    /\ pc = "ops" /\ solver = "operator"
    /\ ret # Nothing /\ ~loc.written
    /\ loc' = [loc EXCEPT !.heap[ret.buf] = VZeros(Len(@)),
                          !.written = TRUE]
    /\ UNCHANGED <<solver, A, b, args, mem, pc, err, op, ret, nprod, iters,
                   nrmatvec>>

NextOp == OpMatvec \/ OpRmatvec \/ OpWrite

SpecOp == InitOp /\ [][NextOp]_vars

(***************************************************************************)
(* Properties of cg.                                                       *)
(***************************************************************************)
\* ||A x - b||^2 for a matrix A and a 1-D b
ResidualSq(x) ==
    LET d == Axpy(MatVec(A.rows, x), Num(-1), VNum(b.v))
    IN  Dot(d, d)

\* a call of cg with a symmetric positive-definite matrix, a 1-D b of its
\* size, and x0, M, maxiter and atol left at their defaults
CgSPDCall ==
    /\ solver = "cg"
    /\ IsSPD(A)
    /\ Len(b.shape) = 1 /\ b.shape[1] = A.shape[1]
    /\ args.x0 = Absent /\ args.M = Nothing
    /\ args.maxiter = Absent /\ args.atol = Absent

\* C1: for every symmetric positive-definite A and every vector b of its
\* size, with x0 and M at their defaults, cg does not raise, and what it
\* returns is an x with ||A x - b|| < tol, reached after at most 10 * N loop
\* iterations, N the length of b.
C1_CgSolvesSPD ==
    CgSPDCall =>
        /\ pc # "failed"
        /\ iters <= 10 * b.shape[1]
        /\ pc = "done" => NormBelow(ResidualSq(ret.x), args.tol)

\* a call of cg that meets cg's preconditions: A square, b of shape N or
\* N x 1 with N the dimension of A, a preconditioner of A's shape, no atol
CgValidCall ==
    /\ solver = "cg"
    /\ IsSquare(A)
    /\ IsVectorOrColumn(b) /\ b.shape[1] = A.shape[1]
    /\ args.M # Nothing => args.M.shape = A.shape
    /\ args.atol = Absent

\* C2: cg always returns, after at most maxiter loop iterations (10 * n when
\* maxiter is not given, n = b.shape[0]); when an iteration ran, the info
\* returned is the index of the last iteration run, between 0 and
\* maxiter - 1, and it is maxiter - 1 when the loop ran out of iterations.
C2_CgReturnsWithinMaxiter ==
    CgValidCall =>
        LET maxiter == CgMaxiter(args.maxiter, b.shape[1])
        IN  /\ pc # "failed"
            /\ iters <= maxiter
            /\ (pc = "done" /\ iters >= 1) =>
                   /\ ret.info = iters - 1
                   /\ 0 <= ret.info /\ ret.info <= maxiter - 1
                   /\ ~loc.brk => ret.info = maxiter - 1

(***************************************************************************)
(* Properties of spsolve.                                                  *)
(***************************************************************************)
\* a call of spsolve that meets its preconditions: a square matrix and a b
\* of shape N or N x 1, N the dimension of A
SpValidCall ==
    /\ solver = "spsolve"
    /\ A.kind = "matrix" /\ IsSquare(A)
    /\ IsVectorOrColumn(b) /\ b.shape[1] = A.shape[1]

\* C3: spsolve runs at most b.shape[0] iterations; it returns x, and nothing
\* else, exactly when the residual norm was below 1e-10 at an iteration i
\* with i % 25 = 0 or i = b.shape[0] - 1, the x returned being the x of that
\* iteration; in every other case it raises the convergence failure.
C3_SpsolveReturnsConvergedOrFails ==
    SpValidCall =>
        /\ iters <= b.shape[1]
        /\ pc = "loop" =>
              \* converged is set exactly by a passing test of the iteration
              \* just run, which ends the loop
              /\ loc.converged >= 0 <=>
                    (iters >= 1 /\ SpTest(iters - 1, b.shape[1], Dot(loc.r, loc.r)))
              /\ loc.converged >= 0 => loc.ended /\ loc.converged = iters - 1
        /\ pc = "done" =>
              /\ loc.converged = iters - 1
              /\ SpTest(loc.converged, b.shape[1], Dot(loc.r, loc.r))
              /\ ret = [x |-> loc.x]
        /\ pc = "failed" =>
              /\ err = "Convergence Failure"
              /\ loc.converged < 0 /\ iters = b.shape[1]

(***************************************************************************)
(* Properties of lsqr.                                                     *)
(***************************************************************************)
\* the iteration limit of the call, from its arguments
LsqrLimitOfCall == LsqrIterLim(args.iter_lim, A.shape[2])

\* lsqr has passed its shape check and wrapped A
LsqrRunning == solver = "lsqr" /\ pc \in {"loop", "done"}

\* C4 (safety part): itn is the number of iterations run and never exceeds
\* iter_lim (2 * n when not given); an iteration is run only while istop is
\* 0, so that none follows the iteration whose tests set istop; the itn
\* returned is the number of iterations run.
LsqrCountsAndStops ==
    LsqrRunning =>
        /\ loc.itn = iters
        /\ loc.iter_lim = LsqrLimitOfCall
        /\ iters <= LsqrLimitOfCall
        /\ loc.istop # 0 => iters >= 1 /\ ~ENABLED LsqrIter
        /\ pc = "done" => ret.itn = iters /\ ret.istop = loc.istop

\* C4: lsqr always terminates: its loop, once entered, leads to the return;
\* the returned itn is the number of loop iterations run and never exceeds
\* iter_lim (2 * n when iter_lim is not given); the loop ends at the first
\* iteration whose stopping tests set istop to a non-zero code: no iteration
\* runs after it.
C4_LsqrTerminates ==
    /\ [](LsqrCountsAndStops)
    /\ (solver = "lsqr" /\ pc = "loop") ~> (pc = "done")

\* lsqr returned after iterating up to a limit of 2 or more
C4_LsqrRanToLimit ==
    /\ solver = "lsqr" /\ pc = "done"
    /\ ret.itn = LsqrLimitOfCall /\ ret.itn >= 2

\* C5 as stated: when itn reaches iter_lim, lsqr terminates with istop 7.
C5_LimitForcesSeven ==
    (LsqrRunning /\ iters >= 1 /\ loc.itn = loc.iter_lim) =>
        /\ loc.istop = 7
        /\ pc = "done" => ret.istop = 7

\* C5 amended: when an iteration brings itn to iter_lim, lsqr runs no further
\* iteration and returns a non-zero istop: 7 if none of the tests 1..6 holds
\* in that iteration, and otherwise the lowest code among the tests that hold.
C5_LimitStopsWithLowestCode ==
    (LsqrRunning /\ iters >= 1 /\ loc.itn = loc.iter_lim) =>
        /\ loc.istop = IF loc.fired = 0 THEN 7 ELSE loc.fired
        /\ loc.istop \in 1..7
        /\ pc = "loop" => ~ENABLED LsqrIter /\ ENABLED LsqrReturn
        /\ pc = "done" => ret.istop = loc.istop /\ ret.itn = loc.iter_lim

\* lsqr returned at its iteration limit with a code below 7
C5_LimitWithLowerCode ==
    /\ solver = "lsqr" /\ pc = "done" /\ iters >= 1
    /\ ret.itn = loc.iter_lim /\ ret.istop \in 1..6

\* the product alfa * beta of the start-up is zero: b - A x0 is the zero
\* vector, or its product with the transpose of A is
LsqrTrivialStart ==
    LET x == IF args.x0 = Absent THEN VZeros(A.shape[2]) ELSE VNum(args.x0)
        u == Axpy(VNum(b.v), Num(-1), MatVec(A.rows, x))
        v == MatVec(Transpose(A.rows, A.shape[2]), u)
    IN  ~VNonZero(u) \/ ~VNonZero(v)

\* C6: lsqr returns istop = 0 exactly when alfa * beta is zero at start-up;
\* it then returns before the first iteration, with itn = 0 and x the
\* starting vector (zeros when x0 is not given); for every other input and
\* every iter_lim the istop returned is one of 1..7.
C6_ZeroIstopIffTrivial ==
    (solver = "lsqr" /\ pc = "done") =>
        /\ ret.istop = 0 <=> LsqrTrivialStart
        /\ ret.istop = 0 =>
              /\ ret.itn = 0 /\ iters = 0
              /\ ret.x = [start |-> IF args.x0 = Absent THEN VZeros(A.shape[2])
                                    ELSE VNum(args.x0),
                          updates |-> 0]
        /\ ret.istop \in 0..7

(***************************************************************************)
(* Properties of cgs, bicg and bicgstab.                                   *)
(***************************************************************************)
\* a call of cgs, bicg or bicgstab that meets the solvers' precondition
KrylovValidCall == solver \in KrylovSolvers /\ SquareSystem(A, b)

\* the residual the last periodic test looked at: s at the first exit of
\* bicgstab, r everywhere else
TestedResidual ==
    IF solver = "bicgstab" /\ loc.exit = "s" THEN loc.s ELSE loc.r

\* C7: in cgs, bicg and bicgstab maxiter has no effect: once the loop is
\* entered the run leaves it only by a periodic convergence test that
\* passes, at an iteration i with i % 25 = 0 and a tested residual norm below
\* tol; the iterations are not bounded by maxiter, and nothing is returned
\* while the tested residual stays at or above tol.
C7_OnlyExitIsPassingTest ==
    (KrylovValidCall /\ loc # Nothing) =>
        /\ (pc = "done" /\ iters >= 1) =>
               /\ KrylovTest(loc.i, Dot(TestedResidual, TestedResidual), args.tol)
               /\ ret.x = loc.x
        /\ pc = "failed" => iters = 0

\* a run with maxiter given that returned after more iterations than maxiter
C7_ReturnedBeyondMaxiter ==
    /\ KrylovValidCall /\ pc = "done"
    /\ args.maxiter # Absent /\ iters > args.maxiter[1]

\* the calls with a preconditioner or a callback, once made
UnsupportedCall ==
    /\ solver \in KrylovSolvers
    /\ args.M # Nothing \/ args.callback
    /\ pc # "call"

\* C8 as stated: for cgs, bicg and bicgstab a call with a preconditioner M or
\* a callback fails with the unsupported-feature error (the assertion on M,
\* NotImplementedError for a callback) before any product and before any
\* iteration, whatever the other arguments are.
C8_UnsupportedFeatureError ==
    UnsupportedCall =>
        /\ pc = "failed"
        /\ err = IF args.M # Nothing THEN "assert M is None"
                 ELSE "NotImplementedError"
        /\ nprod = 0 /\ iters = 0

\* C8 amended: such a call fails before any product and before any
\* iteration; its error is the unsupported-feature one (the assertion on M
\* when M is given, else NotImplementedError) when the call passes the shape
\* assertion that opens cgs and bicg, and that shape assertion when it does
\* not; bicgstab, which has no shape assertion, always fails with the
\* unsupported-feature error.
C8_FailsBeforeAnyProduct ==
    UnsupportedCall =>
        /\ pc = "failed"
        /\ err = IF solver # "bicgstab" /\ ~SquareSystem(A, b)
                 THEN "assert shape"
                 ELSE IF args.M # Nothing THEN "assert M is None"
                 ELSE "NotImplementedError"
        /\ nprod = 0 /\ iters = 0 /\ loc = Nothing /\ ret = Nothing

\* a call with a callback and sound shapes was refused
C8_CallbackRefused ==
    /\ KrylovValidCall /\ args.callback /\ args.M = Nothing
    /\ pc = "failed" /\ err = "NotImplementedError" /\ nprod = 0

(***************************************************************************)
(* Properties of all the solvers.                                          *)
(***************************************************************************)
\* the shape precondition of each solver: A square (2-D for lsqr), b 1-D
\* (or a column, for spsolve and cg) of A's number of rows
ShapePrecondition ==
    CASE solver \in {"spsolve", "cg"} ->
             IsSquare(A) /\ IsVectorOrColumn(b) /\ b.shape[1] = A.shape[1]
      [] solver \in KrylovSolvers -> SquareSystem(A, b)
      [] solver = "lsqr" ->
             Len(A.shape) = 2 /\ Len(b.shape) = 1 /\ b.shape[1] = A.shape[1]

\* C9: for every solver, a call that violates the shape precondition fails
\* immediately: before any product with A and before the loop is entered.
C9_BadShapesFailAtOnce ==
    (~ShapePrecondition /\ pc # "call") =>
        /\ pc = "failed"
        /\ nprod = 0 /\ iters = 0

\* C10: every solver takes a matrix or an already-built LinearOperator: a
\* matrix is wrapped into a matrix operator, an operator is used as it is,
\* not wrapped again, and the products of the solve are its own matvec and
\* rmatvec (none of them fails for want of a matrix under the wrapper).
C10_OperatorUsedAsIs ==
    (solver # "spsolve" /\ op # Nothing) =>
        /\ A.kind = "matrix" => op.kind = "sparse" /\ op.A = A
        /\ A.kind = "operator" => op = A
        /\ err # "AttributeError"

(***************************************************************************)
(* Properties of the adjoint product.                                      *)
(***************************************************************************)
\* b - A x0 of the call (b when x0 is not given) is not the zero vector
InitialResidualNonZero ==
    LET x == IF args.x0 = Absent THEN VZeros(A.shape[2]) ELSE VNum(args.x0)
    IN  VNonZero(Axpy(VNum(b.v), Num(-1), MatVec(A.rows, x)))

\* a finished solve of a call that meets the solver's preconditions and whose
\* initial residual is not zero
SolveWithResidual ==
    /\ ShapePrecondition /\ args.M = Nothing /\ ~args.callback
    /\ InitialResidualNonZero
    /\ pc \in {"done", "failed"}

\* C11: bicg, bicgstab and lsqr each invoke A's rmatvec during a solve whose
\* initial residual is non-zero, so that on an operator without rmatvec they
\* fail with the not-implemented error; cg and cgs never invoke rmatvec.
C11_AdjointSplit ==
    /\ solver \in {"cg", "cgs"} => nrmatvec = 0
    /\ (solver \in {"bicg", "bicgstab", "lsqr"} /\ SolveWithResidual) =>
          /\ nrmatvec >= 1
          /\ (A.kind = "operator" /\ ~A.hasR) =>
                 pc = "failed" /\ err = "NotImplementedError"


(***************************************************************************)
(* Properties of the operators.                                            *)
(***************************************************************************)
\* the last call was given an array whose shape is neither (k,) nor (k, 1),
\* k being N for matvec and M for rmatvec
WrongShapeCall ==
    /\ solver = "operator" /\ loc.last # "none"
    /\ LET k == IF loc.last = "matvec" THEN op.shape[2] ELSE op.shape[1]
       IN  loc.x.shape \notin {<<k>>, <<k, 1>>}

\* C12: for an operator of shape (M, N), matvec raises the dimension-mismatch
\* error for every input whose shape is neither (N,) nor (N, 1), and rmatvec
\* for every input whose shape is neither (M,) nor (M, 1); the underlying
\* product is not invoked and the operator, its cached transpose included,
\* is left as it was.
C12_WrongShapeRaises ==
    WrongShapeCall =>
        /\ err = "dimension mismatch" /\ ret = Nothing
        /\ nprod = loc.before.nprod
        /\ loc.ntranspose = loc.before.ntranspose
        /\ op = loc.before.op
        /\ loc.heap[2] \in {<<>>, VZeros(Len(loc.xval))} /\ loc.heap[3] = <<>>

\* a matrix operator that holds a cached transpose refused a 2-D array with
\* the right number of rows and two columns
C12_RefusedWithCache ==
    /\ WrongShapeCall /\ loc.last = "rmatvec"
    /\ op.kind = "sparse" /\ op.AH # Absent
    /\ loc.x.shape = <<op.shape[1], 2>>

\* the instance is a matrix operator
MatrixOperatorCalls == solver = "operator" /\ op.kind = "sparse"

\* the transposes computed so far: one when some rmatvec call has passed the
\* shape check, none before; a matvec call computes none
TransposeOnce ==
    MatrixOperatorCalls =>
        /\ loc.ntranspose = (IF loc.rpassed >= 1 THEN 1 ELSE 0)
        /\ op.AH = Absent <=> loc.rpassed = 0
        /\ loc.last = "matvec" =>
              /\ loc.ntranspose = loc.before.ntranspose
              /\ op.AH = loc.before.op.AH

\* C13: on one matrix-operator instance the conjugate transpose is computed
\* at most once, by the first rmatvec call that passes the shape check and
\* never by matvec; once set, the cached transpose is never cleared or
\* replaced.
C13_TransposeComputedOnce ==
    /\ []TransposeOnce
    /\ [][(MatrixOperatorCalls /\ op.AH # Absent) => op'.AH = op.AH]_vars

\* three rmatvec calls passed the shape check of one matrix operator
C13_ThreeAdjointCalls ==
    MatrixOperatorCalls /\ loc.rpassed = 3 /\ loc.ntranspose = 1

\* the last call was a matvec or rmatvec of an IdentityOperator that returned
IdentityCall ==
    /\ solver = "operator" /\ op.kind = "identity"
    /\ loc.last # "none" /\ err = None

\* C14: IdentityOperator's matvec and rmatvec return a value equal to x; with
\* no output buffer the result is a copy that does not alias x (a later write
\* to the result leaves x unchanged); with an output buffer x is copied into
\* it, the buffer is what is returned, and x is not modified.
C14_IdentityCopies ==
    IdentityCall =>
        /\ loc.heap[loc.x.buf] = loc.xval
        /\ ret.shape = loc.x.shape
        /\ ~loc.written => loc.heap[ret.buf] = loc.xval
        /\ loc.out = Nothing => ret.buf # loc.x.buf
        /\ loc.out # Nothing =>
              /\ ret.buf = loc.out.buf
              /\ ~loc.written => loc.heap[loc.out.buf] = loc.xval

\* the caller wrote into the array an identity call without out returned
C14_WroteIntoCopy ==
    IdentityCall /\ loc.out = Nothing /\ loc.written

(***************************************************************************)
(* Properties of cg's callback and convergence test.                       *)
(***************************************************************************)
\* cg has entered its loop
CgRunning == solver = "cg" /\ loc # Nothing

\* the x of the call before any update
CgStart == IF args.x0 = Absent THEN VZeros(b.shape[1]) ELSE VNum(args.x0)

\* alpha of the iteration just run, from the locals it left
CgAlpha == Div(loc.rz, Dot(loc.p, loc.Ap))

\* C15: a callback given to cg is invoked once at the start of every loop
\* iteration with x as it stands before that iteration's update, and once
\* more after the loop with the x that is returned: iterations + 1
\* invocations in all, and none without a callback.
C15_CallbackEveryIteration ==
    CgRunning =>
        /\ ~args.callback => loc.ncallback = 0 /\ loc.cbarg = Absent
        /\ (args.callback /\ pc \in {"loop", "failed"}) =>
              /\ loc.ncallback = iters
              /\ iters = 1 => loc.cbarg = CgStart
              /\ (pc = "loop" /\ iters >= 1) =>
                     loc.x = Axpy(loc.cbarg, CgAlpha, loc.p)
        /\ (args.callback /\ pc = "done") =>
              /\ loc.ncallback = iters + 1
              /\ loc.cbarg = ret.x

\* cg returned after two iterations or more, each with its callback
C15_CalledBackThrice ==
    /\ CgRunning /\ args.callback /\ pc = "done"
    /\ iters >= 2 /\ loc.ncallback = iters + 1

\* an iteration of cg has just been completed; its index is iters - 1
CgIterated == CgRunning /\ pc = "loop" /\ iters >= 1

\* the index of the iteration just completed is one the test looks at
CgTestedIteration ==
    \/ (iters - 1) % args.conv_test_iters = 0
    \/ iters - 1 = CgMaxiter(args.maxiter, b.shape[1]) - 1

\* ||r|| < tol for the residual the iteration left
CgResidualSmall == NormBelow(Dot(loc.r, loc.r), args.tol)

\* C16: cg evaluates its convergence test exactly at the iterations i with
\* i % conv_test_iters = 0 or i = maxiter - 1: there it breaks out of the
\* loop if and only if ||r|| < tol; at every other iteration it goes on to
\* the next iteration, even when ||r|| < tol.
C16_TestOnlyAtTestedIterations ==
    CgIterated =>
        /\ loc.brk <=> (CgTestedIteration /\ CgResidualSmall)
        /\ loc.brk => loc.i = iters - 1
        /\ ~loc.brk => loc.i = iters

\* cg went on after an iteration, not a tested one, that left ||r|| < tol
C16_ConvergedUntested ==
    /\ CgIterated /\ ~CgTestedIteration /\ CgResidualSmall
    /\ ~loc.brk /\ loc.i < loc.maxiter

(***************************************************************************)
(* Properties of the solvers' buffers.                                     *)
(***************************************************************************)
\* C17: the iteration state of every solver is private to the call: no
\* solver (cg, cgs, bicg, bicgstab, lsqr) writes into a buffer owned by the
\* caller, and a caller-supplied x0 and b hold, during and after the call,
\* the values they had before it.
C17_CallerBuffersUntouched ==
    solver \in {"cg", "cgs", "bicg", "bicgstab", "lsqr"} =>
        mem = [x0 |-> VNum(args.x0), b |-> VNum(b.v)]

(***************************************************************************)
(* Properties of cg's residual.                                            *)
(***************************************************************************)
\* cg is in its loop on a matrix A, with finite x and r
CgFiniteState ==
    /\ CgRunning /\ pc = "loop" /\ A.kind = "matrix"
    /\ VFinite(loc.x) /\ VFinite(loc.r)

\* C18: cg maintains r = b - A x for its current iterate x: at loop entry,
\* for every initial guess (b - A x0 with an x0, b without), and after every
\* iteration's updates x += alpha * p, r -= alpha * Ap (exact arithmetic).
C18_ResidualIsBMinusAx ==
    CgFiniteState =>
        loc.r = Axpy(VNum(b.v), Num(-1), MatVec(A.rows, loc.x))

(***************************************************************************)
(* Properties of the periodic test of cgs, bicg and bicgstab.              *)
(***************************************************************************)
\* C19: cgs makes its convergence check only every 25 iterations: counting
\* the loop's iterations from 0, the loop is left only at an iteration whose
\* index is a multiple of 25; at every other iteration it continues,
\* whatever the residual.
C19_CgsLeavesOnlyEvery25 ==
    (solver = "cgs" /\ pc = "done" /\ iters >= 1) =>
        (iters - 1) % conv_iters = 0

\* a well-shaped call of bicg or bicgstab that has reached its loop
BiRunning ==
    /\ solver \in {"bicg", "bicgstab"} /\ SquareSystem(A, b)
    /\ loc # Nothing

\* C20: in bicg and bicgstab the counter i starts at 0 and grows by one per
\* completed iteration, and the loop is left only at an iteration whose index
\* is a multiple of 25: a residual below tol at another iteration does not
\* stop the solver, which goes on applying updates.
C20_BiLeavesOnlyEvery25 ==
    BiRunning =>
        /\ pc = "loop" => loc.i = iters
        /\ (pc = "done" /\ iters >= 1) =>
               /\ loc.i = iters - 1
               /\ (iters - 1) % conv_iters = 0
        /\ (pc = "loop" /\ iters >= 1 /\ (iters - 1) % conv_iters # 0) =>
               ret = Nothing

\* an iteration whose index is not a multiple of 25 left a residual below
\* tol, and the solver is still in its loop
C20_SmallResidualUntested ==
    /\ BiRunning /\ pc = "loop"
    /\ iters >= 2 /\ (iters - 1) % conv_iters # 0
    /\ \/ NormBelow(Dot(loc.r, loc.r), args.tol)
       \/ solver = "bicgstab" /\ NormBelow(Dot(loc.s, loc.s), args.tol)

(***************************************************************************)
(* Properties of bicgstab.                                                 *)
(***************************************************************************)
\* a well-shaped call of bicgstab on a matrix, in its loop
BicgstabLooping ==
    /\ solver = "bicgstab" /\ SquareSystem(A, b) /\ A.kind = "matrix"
    /\ pc = "loop"

\* b - A x0, the initial residual (b when x0 is not given)
InitialResidual ==
    LET x == IF args.x0 = Absent THEN VZeros(A.shape[2]) ELSE VNum(args.x0)
    IN  Axpy(VNum(b.v), Num(-1), MatVec(A.rows, x))

\* r + beta * (p - omega * Ap) of the iteration that starts in this state
RegularP ==
    LET Ap == MatVec(A.rows, loc.p)
        alpha == Div(Dot(loc.r, loc.rhat), Dot(Ap, loc.rhat))
        s == Axpy(loc.r, Neg(alpha), Ap)
        As == MatVec(A.rows, s)
        omega == Div(Dot(As, s), Dot(As, As))
        r == Axpy(s, Neg(omega), As)
        beta == Div(Mul(Div(alpha, omega), Dot(r, loc.rhat)),
                    Dot(loc.r, loc.rhat))
    IN  Axpy(r, beta, Axpy(loc.p, Neg(omega), Ap))

\* |v| < 1e-8; false for nan
Tiny(v) ==
    /\ ~IsNaN(v) /\ ~IsInf(v)
    /\ (IF v.n < 0 THEN -v.n ELSE v.n) <= (v.d - 1) \div restart_inv

\* rhat and p after an iteration that does not exit: reset to the new r when
\* |r . rhat| < 1e-8 (new r, rhat of before), else rhat as before and p the
\* regular update
RestartStep ==
    (BicgstabLooping /\ pc' = "loop" /\ iters' = iters + 1) =>
        IF Tiny(Dot(loc'.r, loc.rhat))
        THEN loc'.rhat = loc'.r /\ loc'.p = loc'.r
        ELSE loc'.rhat = loc.rhat /\ loc'.p = RegularP

\* C21: in bicgstab the shadow residual rhat starts as the initial residual
\* and changes only through a restart: at the end of every iteration that
\* does not exit, if |r . rhat| < 1e-8 (new r, current rhat) both rhat and p
\* are reset to the new r; otherwise rhat is unchanged and p keeps its
\* regular update r + beta * (p - omega * Ap).
C21_RhatChangesOnlyByRestart ==
    /\ []((BicgstabLooping /\ iters = 0) =>
             loc.rhat = InitialResidual /\ loc.p = InitialResidual)
    /\ [][RestartStep]_vars

\* a restart has replaced rhat by a later residual that is not zero
C21_Restarted ==
    /\ BicgstabLooping /\ iters >= 1
    /\ loc.rhat = loc.r /\ loc.p = loc.r
    /\ loc.rhat # InitialResidual /\ VFinite(loc.r) /\ VNonZero(loc.r)

\* alpha, s, omega and the two candidate iterates of the iteration that
\* starts in this state
BicgstabTrial ==
    LET Ap == MatVec(A.rows, loc.p)
        alpha == Div(Dot(loc.r, loc.rhat), Dot(Ap, loc.rhat))
        s == Axpy(loc.r, Neg(alpha), Ap)
        As == MatVec(A.rows, s)
        omega == Div(Dot(As, s), Dot(As, As))
        half == Axpy(loc.x, alpha, loc.p)
    IN  [s |-> s, half |-> half, full |-> Axpy(half, omega, s)]

\* an iteration that exits: on ||s|| it returns the previous x plus
\* alpha * p after one product (A p); on ||r|| it returns the previous x plus
\* alpha * p + omega * s after two (A p and A s)
ExitStep ==
    (BicgstabLooping /\ pc' = "done") =>
        /\ loc.i % conv_iters = 0
        /\ loc'.exit = "s" <=> NormBelow(Dot(BicgstabTrial.s, BicgstabTrial.s),
                                         args.tol)
        /\ loc'.exit = "s" =>
              ret'.x = BicgstabTrial.half /\ nprod' = nprod + 1
        /\ loc'.exit = "r" =>
              ret'.x = BicgstabTrial.full /\ nprod' = nprod + 2

\* C22: bicgstab has two exits with different final updates: leaving on the
\* early check of ||s|| (made only when i % 25 = 0) it returns the previous
\* iterate plus alpha * p only, and computes no A s in that iteration;
\* leaving on the check of ||r|| it returns the previous iterate plus
\* alpha * p + omega * s.
C22_TwoExits == [][ExitStep]_vars

\* bicgstab returned through its early exit with an x that differs from the
\* iterate it started the iteration with
C22_LeftOnS ==
    /\ solver = "bicgstab" /\ SquareSystem(A, b) /\ A.kind = "matrix"
    /\ pc = "done" /\ iters >= 1 /\ loc.exit = "s"
    /\ ret.x # (IF args.x0 = Absent THEN VZeros(A.shape[2]) ELSE VNum(args.x0))

(***************************************************************************)
(* Properties of lsqr's stopping code.                                     *)
(***************************************************************************)
\* the smallest element of a non-empty set of codes
Lowest(S) == CHOOSE k \in S : \A j \in S : k <= j

\* lsqr has run at least one iteration of its main loop
LsqrIterated == LsqrRunning /\ iters >= 1

\* C23: the istop of lsqr is always one of the codes 0..7, and so is the one
\* returned; after an iteration in which several stopping tests hold, istop
\* is the smallest of the codes that hold: a code of 1, 2, 3 overrides 4, 5,
\* 6, which override 7, and within a group the lower code wins; istop stays
\* 0 when no test holds.
C23_SmallestCodeWins ==
    /\ LsqrRunning =>
          /\ loc.istop \in 0..7
          /\ pc = "done" => ret.istop = loc.istop /\ ret.istop \in 0..7
    /\ LsqrIterated =>
          /\ loc.istop = IF loc.held = {} THEN 0 ELSE Lowest(loc.held)
          /\ loc.held \cap (1..3) # {} => loc.istop \in 1..3
          /\ (loc.held \cap (1..3) = {} /\ loc.held \cap (4..6) # {}) =>
                loc.istop \in 4..6
          /\ loc.istop = 7 <=> loc.held = {7}
          /\ \A k \in loc.held : loc.istop <= k

\* lsqr returned code 2 from an iteration in which a test of each group held:
\* those of the codes 2 and 3, of 5, and the iteration limit
C23_ReturnedLowestOfThreeGroups ==
    /\ solver = "lsqr" /\ pc = "done" /\ iters >= 1
    /\ loc.held = {2, 3, 5, 7}
    /\ ret.istop = 2


=============================================================================
